---- MODULE Spec2Model ----
(***************************************************************************)
(* Bing Translate UI Overhaul (userscript, version 2.0).                   *)
(*                                                                         *)
(* The script is modelled as an event-driven state machine on the host     *)
(* page's single UI thread: every handler (keydown listener, mutation      *)
(* observer callback, timer callback, promise reaction) is one atomic      *)
(* action.  The host page (its DOM nodes and the user) is the environment. *)
(*                                                                         *)
(* A string is a sequence of characters; a <br> tag of the input's HTML    *)
(* is one element of the sequence.                                         *)
(***************************************************************************)
EXTENDS Integers, Sequences, FiniteSets, TLC

\* ------------------------------------------------------------------------
\* Bounds of the model
\* ------------------------------------------------------------------------

\* Longest input HTML / output text enumerated for the resegmentation.
MaxInLen == 3
MaxOutLen == 3
\* Most 500 ms retry timers / 50 ms input timers outstanding at once.
MaxRetry == 2
MaxInputTimers == 1
\* Most clipboard promises pending at once.
MaxPending == 1
MaxResetTimers == 2

\* ------------------------------------------------------------------------
\* Characters and strings
\* ------------------------------------------------------------------------

NL == "\n"
Whitespace == {" ", NL}
\* The tags /<br\s*\/?>/gi matches.
BrTags == {"<br>"}
\* The sentence terminators of /[^.!?]+(?:[.!?]+|$)/g.
Terminators == {".", "!", "?"}

InChars == {"a", " ", "<br>"}
OutChars == {"a", ".", NL, "@"}

Empty == << >>

Strings(chars, n) == UNION {[1..k -> chars] : k \in 0..n}

RECURSIVE TrimStart(_)
TrimStart(s) ==
    IF s # Empty /\ Head(s) \in Whitespace THEN TrimStart(Tail(s)) ELSE s

RECURSIVE TrimEnd(_)
TrimEnd(s) ==
    IF s # Empty /\ s[Len(s)] \in Whitespace
    THEN TrimEnd(SubSeq(s, 1, Len(s) - 1))
    ELSE s

\* String.prototype.trim
Trim(s) == TrimEnd(TrimStart(s))

\* .replace(/<br\s*\/?>/gi, '\n')
BrToNewline(html) ==
    [i \in 1..Len(html) |-> IF html[i] \in BrTags THEN NL ELSE html[i]]

\* Index of the first newline of s, 0 when there is none.
RECURSIVE FirstNewline(_, _)
FirstNewline(s, i) ==
    IF i > Len(s) THEN 0
    ELSE IF s[i] = NL THEN i
    ELSE FirstNewline(s, i + 1)

\* .split('\n'): the empty string splits into one empty line.
RECURSIVE Split(_)
Split(s) ==
    LET p == FirstNewline(s, 1)
    IN  IF p = 0 THEN << s >>
        ELSE << SubSeq(s, 1, p - 1) >> \o Split(SubSeq(s, p + 1, Len(s)))

\* .join('\n')
RECURSIVE Join(_)
Join(lines) ==
    IF lines = << >> THEN Empty
    ELSE IF Len(lines) = 1 THEN lines[1]
    ELSE lines[1] \o << NL >> \o Join(Tail(lines))

Includes(s, c) == \E i \in 1..Len(s) : s[i] = c

\* Length of the longest prefix of s whose characters are all in (or, with
\* inside = FALSE, all outside) the set cs.
RECURSIVE Run(_, _, _)
Run(s, cs, inside) ==
    IF s # Empty /\ ((Head(s) \in cs) = inside)
    THEN 1 + Run(Tail(s), cs, inside)
    ELSE 0

\* text.match(/[^.!?]+(?:[.!?]+|$)/g): the matches from left to right; a
\* terminator no match can start at is skipped.  << >> stands for null.
RECURSIVE MatchSentences(_)
MatchSentences(s) ==
    IF s = Empty THEN << >>
    ELSE IF Head(s) \in Terminators THEN MatchSentences(Tail(s))
    ELSE LET n == Run(s, Terminators, FALSE)
             m == Run(SubSeq(s, n + 1, Len(s)), Terminators, TRUE)
         IN  << SubSeq(s, 1, n + m) >>
                 \o MatchSentences(SubSeq(s, n + m + 1, Len(s)))

MapTrim(segs) == [i \in 1..Len(segs) |-> Trim(segs[i])]
NonEmpty(s) == Len(s) > 0

\* The output segments of the current output text.
OutputSegments(currentOutputText) ==
    LET trimmedOutputText == Trim(currentOutputText)
        matched == MatchSentences(trimmedOutputText)
        split == SelectSeq(MapTrim(IF matched = << >>
                                   THEN << trimmedOutputText >>
                                   ELSE matched), NonEmpty)
        outputSegments == IF Len(trimmedOutputText) > 0 THEN split ELSE << >>
    IN  IF Len(outputSegments) = 0 /\ Len(trimmedOutputText) > 0
        THEN << trimmedOutputText >>
        ELSE outputSegments

\* inputTextarea.innerHTML.replace(/<br\s*\/?>/gi, '\n').split('\n')
InputLines(inputHTML) == Split(BrToNewline(inputHTML))

IsBlank(line) == Trim(line) = Empty
AllBlank(inputLines) == \A i \in 1..Len(inputLines) : IsBlank(inputLines[i])

RECURSIVE CorrelateNoPlaceholder(_, _, _, _, _)
CorrelateNoPlaceholder(inputLines, outputSegments, i, restoredOutputArray, outputIndex) ==
    IF i > Len(inputLines)
    THEN [array |-> restoredOutputArray, index |-> outputIndex]
    ELSE IF IsBlank(inputLines[i])
    THEN CorrelateNoPlaceholder(inputLines, outputSegments, i + 1,
                   Append(restoredOutputArray, Empty), outputIndex)
    ELSE IF outputIndex <= Len(outputSegments)
    THEN CorrelateNoPlaceholder(inputLines, outputSegments, i + 1,
                   Append(restoredOutputArray, outputSegments[outputIndex]),
                   outputIndex + 1)
    ELSE CorrelateNoPlaceholder(inputLines, outputSegments, i + 1,
                   restoredOutputArray, outputIndex)

\* The for loop that correlates input lines with output segments, from line i
\* on: the restored array and the index of the next unused segment.
RECURSIVE Correlate(_, _, _, _, _)
Correlate(inputLines, outputSegments, i, restoredOutputArray, outputIndex) ==
    IF i > Len(inputLines)
    THEN [array |-> restoredOutputArray, index |-> outputIndex]
    ELSE IF IsBlank(inputLines[i])
    THEN Correlate(inputLines, outputSegments, i + 1,
                   Append(restoredOutputArray, Empty), outputIndex)
    ELSE IF outputIndex <= Len(outputSegments)
    THEN Correlate(inputLines, outputSegments, i + 1,
                   Append(restoredOutputArray, outputSegments[outputIndex]),
                   outputIndex + 1)
    ELSE Correlate(inputLines, outputSegments, i + 1,
                   Append(restoredOutputArray, Empty), outputIndex)

LastEntry(restoredOutputArray, k) == k

\* Index of the last non-empty entry of the array at or below k, 0 when none.
RECURSIVE LastNonEmpty(_, _)
LastNonEmpty(restoredOutputArray, k) ==
    IF k = 0 THEN 0
    ELSE IF restoredOutputArray[k] # Empty THEN k
    ELSE LastNonEmpty(restoredOutputArray, k - 1)

\* The "careful concatenation" of one surplus segment onto entry k.
Concatenate(entry, segment) ==
    IF Len(entry) > 0 /\ Len(segment) > 0
         /\ entry[Len(entry)] \notin Whitespace
         /\ Head(segment) \notin Whitespace
    THEN entry \o << " " >> \o segment
    ELSE entry \o segment

AppendSurplusDrop(restoredOutputArray, outputSegments, outputIndex) == restoredOutputArray

\* The while loop that appends the surplus output segments.
RECURSIVE AppendSurplus(_, _, _)
AppendSurplus(restoredOutputArray, outputSegments, outputIndex) ==
    IF outputIndex > Len(outputSegments) THEN restoredOutputArray
    ELSE LET k == LastNonEmpty(restoredOutputArray, Len(restoredOutputArray))
             seg == outputSegments[outputIndex]
         IN  AppendSurplus(
                 IF k > 0
                 THEN [restoredOutputArray EXCEPT ![k] = Concatenate(@, seg)]
                 ELSE Append(restoredOutputArray, seg),
                 outputSegments, outputIndex + 1)

\* The restored output array for the given input lines and output segments.
RestoredOutputArray(inputLines, outputSegments) ==
    LET c == Correlate(inputLines, outputSegments, 1, << >>, 1)
    IN  AppendSurplus(c.array, outputSegments, c.index)

\* line.replace(/\.\s+/g, '.')
RECURSIVE RemoveSpaceAfterDot(_)
RemoveSpaceAfterDot(line) ==
    IF line = Empty THEN Empty
    ELSE IF Head(line) = "." /\ Len(line) > 1 /\ line[2] \in Whitespace
    THEN << "." >> \o RemoveSpaceAfterDot(TrimStart(Tail(line)))
    ELSE << Head(line) >> \o RemoveSpaceAfterDot(Tail(line))

\* The post-processing of lines that hold an e-mail address.
EmailFix(line) == IF Includes(line, "@") THEN RemoveSpaceAfterDot(line) ELSE line

\* processedOutput, for an input that has a non-blank line.
ProcessedOutput(inputHTML, currentOutputText) ==
    LET restoredOutputArray ==
            RestoredOutputArray(InputLines(inputHTML),
                                OutputSegments(currentOutputText))
        finalOutputLines == Split(Join(restoredOutputArray))
    IN  Join([i \in 1..Len(finalOutputLines) |-> EmailFix(finalOutputLines[i])])

\* ------------------------------------------------------------------------
\* State
\* ------------------------------------------------------------------------

VARIABLES
    initialized,              \* initialize() has run
    inputExists,              \* #tta_input_ta is in the document
    outputExists,             \* #tta_output_ta is in the document
    inputHTML,                \* inputTextarea.innerHTML
    outputText,               \* outputDiv.innerText
    toneExists,               \* #tta_tonesl is in the document
    toneValue,                \* toneSelectElement.value
    swapExists,               \* div#tta_revIcon is in the document
    clipboardApi,             \* navigator.clipboard.writeText is available
    pendingWrites,            \* texts of the writeText promises not yet settled
    clipboard,                \* the system clipboard's text
    lastProcessedInputHTML,
    lastProcessedOutputText,
    intervalActive,           \* the 750 ms interval is set
    retryTimers,              \* outstanding 500 ms retry timeouts
    inputTimers,              \* outstanding 50 ms timeouts of the input listener
    inputObserved,            \* a MutationObserver watches the input element
    outputObserved,           \* a MutationObserver watches the output element
    inputListener,            \* the 'input' listener is on the input element
    pendingObservers,         \* observers with mutation records not yet delivered
    keydownListeners,         \* keydown listeners registered on the document
    styleInjected,            \* the custom stylesheet is in document.head
    topBarExists,             \* #custom_top_bar is in the document
    copyIconExists,           \* div#tta_copyIcon is in the document
    copyIconHidden,           \* its style.display is 'none'
    fixedCopyButtonInitialized,
    fixedButtonExists,        \* #fixed_tta_copyIcon is in the document
    fixedTitle,               \* fixedCopyButton.title
    fixedOpacity,             \* fixedCopyButton.style.opacity
    copyObserver,             \* the observer that keeps the original icon hidden
    srcDropdown,              \* #tta_srcsl: missing, or what its text says
    tgtDropdown,              \* #tta_tgtsl: missing, or what its text says
    langObservers,            \* dropdowns whose language list is being awaited
    pendingBody,              \* observers of document.body with records pending
    scriptWrites,             \* writes of the output by the script since the
                              \* host page last changed input or output
    menuItems,                \* dropdowns whose wanted .tta_menu_item is present
    expanded,                 \* dropdowns whose aria-expanded is 'true'
    closeTimers,              \* dropdowns with a 100 ms closing timeout pending
    langClicks,               \* clicks made per dropdown: open, item, close
    resetTimers,              \* titles captured by the pending 1000 ms timeouts
    clickHandlers,            \* click listeners on the fixed copy button
    ev                        \* what the last handler invocation did

pageVars == << inputExists, outputExists, inputHTML, outputText,
               toneExists, toneValue, swapExists >>
clipVars == << clipboardApi, pendingWrites, clipboard >>
lineVars == << lastProcessedInputHTML, lastProcessedOutputText, intervalActive,
               retryTimers, inputTimers, inputObserved, outputObserved,
               inputListener, pendingObservers, scriptWrites >>
setupVars == << styleInjected, topBarExists, copyIconExists, copyIconHidden,
                fixedCopyButtonInitialized, fixedButtonExists, fixedTitle,
                fixedOpacity, copyObserver, srcDropdown, tgtDropdown,
                langObservers, menuItems, expanded, closeTimers, langClicks,
                resetTimers, clickHandlers >>
vars == << initialized, pageVars, clipVars, lineVars, keydownListeners,
           setupVars, pendingBody, ev >>

\* window.location.hostname.includes('bing.com'): the script only runs on
\* the pages its @match names.
OnBing == TRUE

RetryDelay == 500
InputDelay == 50
IntervalPeriod == 750
CloseDelay == 100
ResetDelay == 1000

ToneValues == {"Standard", "Casual", "Formal"}
\* A language dropdown: not in the document, showing the wanted language, or
\* showing another one.
DropdownStates == {"missing", "wanted", "other"}
\* The two language dropdowns, '#tta_srcsl' and '#tta_tgtsl'.
Dropdowns == {"tta_srcsl", "tta_tgtsl"}
Keys == {"z", "s", "a", "x"}
\* What document.execCommand('copy') may do.
ExecOutcomes == {"copied", "refused", "threw"}

\* The values the host page gives the input and the output.
HostInputs == {Empty, << "a" >>, << "a", "<br>", "a" >>}
HostOutputs == {Empty, << "a" >>, << "a", ".", "a" >>, << "a", NL >>, << NL >>}

\* A translation that begins with a sentence terminator standing alone.
LeadingTerminatorOutputs == {<< ".", NL, ".", "a" >>}

\* The invocations of processTranslationLineBreaks, by what invoked it.
ProcessKinds == {"observer", "inputTimer", "retry", "interval"}

\* The record of a handler invocation that did nothing.
NoEffect ==
    [kind |-> "none",        \* the handler
     stage |-> "none",       \* where processTranslationLineBreaks returned
     wrote |-> FALSE,        \* outputDiv.innerText was assigned
     events |-> << >>,       \* events dispatched, << target, type >> each
     scheduled |-> << >>,    \* delays of the setTimeout calls made
     intervals |-> << >>,    \* periods of the setInterval calls made
     restored |-> << >>,     \* restoredOutputArray
     key |-> "", alt |-> FALSE,
     prevented |-> FALSE,    \* event.preventDefault() was called
     stopped |-> FALSE,      \* event.stopPropagation() was called
     copyCalls |-> << >>,    \* arguments of the copyPlainText calls
     fallbackCalls |-> << >>,\* arguments of the fallbackCopyText calls
     clicks |-> << >>,       \* elements clicked
     settled |-> << >>,      \* texts of the writeText promises settled
     escaped |-> FALSE]      \* an exception left the handler

\* The observers of document.body (childList, subtree) that are connected:
\* the one that keeps the original copy icon hidden and the language-list
\* observers.  A child added or removed anywhere in the body queues a record
\* for each of them.
BodyObservers == (IF copyObserver THEN {"copy"} ELSE {}) \cup langObservers

OutputEventsChangeFirst ==
    << << "output", "change" >>, << "output", "input" >>,
       << "output", "compositionend" >> >>

\* triggerOutputEvents(outputDiv)
OutputEvents ==
    << << "output", "input" >>, << "output", "change" >>,
       << "output", "compositionend" >> >>

\* ------------------------------------------------------------------------
\* processTranslationLineBreaks
\* ------------------------------------------------------------------------

ElementsMissingBoth == ~inputExists /\ ~outputExists

\* if (!inputTextarea || !outputDiv)
ElementsMissing == ~inputExists \/ ~outputExists

AlreadyProcessedTypo ==
    /\ inputHTML = lastProcessedInputHTML
    /\ outputText = lastProcessedInputHTML

AlreadyProcessedInputOnly == inputHTML = lastProcessedInputHTML

\* currentInputHTML === lastProcessedInputHTML &&
\* currentOutputText === lastProcessedOutputText
AlreadyProcessed ==
    /\ inputHTML = lastProcessedInputHTML
    /\ outputText = lastProcessedOutputText

NeedsWriteAlways(current, computed) == TRUE

\* outputDiv.innerText !== processedOutput (and !== '' when the input is blank)
NeedsWrite(current, computed) == current # computed

\* The text an invocation that gets past the guards computes for the output.
ComputedOutputNoBlankBranch(html, text) == ProcessedOutput(html, text)

\* What an invocation that passes both guards computes for the output: ''
\* when every input line is blank, the resegmented text otherwise.
ComputedOutput(html, text) ==
    IF AllBlank(InputLines(html)) THEN Empty ELSE ProcessedOutput(html, text)

\* One invocation.  pend: the observers still pending when it starts;
\* retryLeft: the retry timers outstanding when it starts.
ProcessTranslationLineBreaks(kind, pend, retryLeft) ==
    LET inputLines == InputLines(inputHTML)
        computed == ComputedOutput(inputHTML, outputText)
        write == NeedsWrite(outputText, computed)
        me == [NoEffect EXCEPT !.kind = kind]
    IN  IF ElementsMissing
        THEN /\ retryLeft < MaxRetry
             /\ retryTimers' = retryLeft + 1
             /\ pendingObservers' = pend
             /\ ev' = [me EXCEPT !.stage = "missing",
                                 !.scheduled = << RetryDelay >>]
             /\ UNCHANGED << outputText, lastProcessedInputHTML,
                             lastProcessedOutputText, pendingBody,
                             scriptWrites >>
        ELSE IF AlreadyProcessed
        THEN /\ retryTimers' = retryLeft
             /\ pendingObservers' = pend
             /\ ev' = [me EXCEPT !.stage = "skipped"]
             /\ UNCHANGED << outputText, lastProcessedInputHTML,
                             lastProcessedOutputText, pendingBody,
                             scriptWrites >>
        ELSE /\ retryTimers' = retryLeft
             /\ lastProcessedInputHTML' = inputHTML
             /\ lastProcessedOutputText' = outputText
             /\ outputText' = IF write THEN computed ELSE outputText
             /\ pendingObservers' =
                    IF write /\ outputObserved
                    THEN pend \cup {"output"} ELSE pend
             /\ pendingBody' =
                    IF write THEN pendingBody \cup BodyObservers
                    ELSE pendingBody
             /\ scriptWrites' = IF write THEN scriptWrites + 1
                                ELSE scriptWrites
             /\ ev' = [me EXCEPT
                    !.stage = IF AllBlank(inputLines)
                              THEN "cleared" ELSE "resegmented",
                    !.restored = IF AllBlank(inputLines) THEN << >>
                                 ELSE RestoredOutputArray(inputLines,
                                          OutputSegments(outputText)),
                    !.wrote = write,
                    !.events = IF write THEN OutputEvents ELSE << >>]

\* What an invocation leaves alone.
ProcessFrame ==
    UNCHANGED << initialized, inputExists, outputExists, inputHTML, toneExists,
                 toneValue, swapExists, clipVars, inputObserved, outputObserved,
                 inputListener, keydownListeners, setupVars >>

\* A MutationObserver delivers its records; they are delivered before any
\* other task runs.
ObserverCallback ==
    \E o \in pendingObservers :
        /\ ProcessTranslationLineBreaks("observer", pendingObservers \ {o},
                                        retryTimers)
        /\ ProcessFrame
        /\ UNCHANGED << intervalActive, inputTimers >>

\* No mutation record awaits delivery: a task of the page or a timer of the
\* script runs only then.
Idle == pendingObservers = {} /\ pendingBody = {}

\* A 50 ms timeout of the input listener fires.
InputTimerFire ==
    /\ Idle
    /\ inputTimers > 0
    /\ inputTimers' = inputTimers - 1
    /\ ProcessTranslationLineBreaks("inputTimer", pendingObservers, retryTimers)
    /\ ProcessFrame
    /\ UNCHANGED intervalActive

RetryFireChainEnds ==
    /\ Idle
    /\ retryTimers > 0
    /\ IF ElementsMissing
       THEN /\ retryTimers' = retryTimers - 1
            /\ ev' = [NoEffect EXCEPT !.kind = "retry", !.stage = "missing"]
            /\ UNCHANGED << pendingObservers, outputText,
                            lastProcessedInputHTML, lastProcessedOutputText,
                            pendingBody, scriptWrites >>
       ELSE ProcessTranslationLineBreaks("retry", pendingObservers,
                                         retryTimers - 1)
    /\ ProcessFrame
    /\ UNCHANGED << intervalActive, inputTimers >>

\* A 500 ms retry timeout fires.
RetryFire ==
    /\ Idle
    /\ retryTimers > 0
    /\ ProcessTranslationLineBreaks("retry", pendingObservers, retryTimers - 1)
    /\ ProcessFrame
    /\ UNCHANGED << intervalActive, inputTimers >>

IntervalTickOnce ==
    /\ Idle
    /\ intervalActive
    /\ intervalActive' = FALSE
    /\ ProcessTranslationLineBreaks("interval", pendingObservers, retryTimers)
    /\ ProcessFrame
    /\ UNCHANGED inputTimers

\* The 750 ms interval fires.
IntervalTick ==
    /\ Idle
    /\ intervalActive
    /\ ProcessTranslationLineBreaks("interval", pendingObservers, retryTimers)
    /\ ProcessFrame
    /\ UNCHANGED << intervalActive, inputTimers >>

\* ------------------------------------------------------------------------
\* Tone, clipboard and the keydown listener
\* ------------------------------------------------------------------------

\* selectTone(toneText) changes the selector unless it is missing or already
\* holds the value.
SelectToneChanges(toneText) == OnBing /\ toneExists /\ toneValue # toneText

\* toneSelectElement.value after selectTone(toneText)
SelectToneValue(toneText) ==
    IF SelectToneChanges(toneText) THEN toneText ELSE toneValue

\* The events selectTone(toneText) dispatches.
SelectToneEvents(toneText) ==
    IF SelectToneChanges(toneText) THEN << << "tone", "change" >> >> ELSE << >>

ToggleTargetSticky(currentTone) ==
    IF currentTone = "Casual" THEN "Formal" ELSE currentTone

\* The tone Alt+A asks for, given the current one.
ToggleTarget(currentTone) ==
    IF currentTone = "Casual" THEN "Formal"
    ELSE IF currentTone = "Formal" THEN "Casual"
    ELSE "Casual"

IsShortcutAnyModifier(alt, key, wanted) == key = wanted

\* event.altKey && event.key === wanted
IsShortcut(alt, key, wanted) == alt /\ key = wanted

\* getTranslatedText() returned a non-empty string.
HasTranslatedText == outputExists /\ outputText # Empty

CopyArgumentUntrimmed(text) == text

\* The argument of copyPlainText: translatedText.trim()
CopyArgument(text) == Trim(text)

\* fallbackCopyText(text): execCommand copies, refuses or throws; the throw is
\* caught.  The textarea it appends to document.body and removes again leaves
\* records for the observers of the body.
FallbackCopyText(text, outcome) ==
    [clipboard |-> IF outcome = "copied" THEN text ELSE clipboard,
     escaped |-> FALSE]

\* The keydown listener.
HandleKeydown(alt, key) ==
    \E outcome \in ExecOutcomes :
        LET isCopy == IsShortcut(alt, key, "z")
            isSwap == IsShortcut(alt, key, "s")
            isTone == IsShortcut(alt, key, "a")
            doCopy == isCopy /\ HasTranslatedText
            arg == CopyArgument(outputText)
            viaApi == doCopy /\ clipboardApi
            viaFallback == doCopy /\ ~clipboardApi
            fb == FallbackCopyText(arg, outcome)
            target == ToggleTarget(toneValue)
        IN  /\ viaApi => Len(pendingWrites) < MaxPending
            /\ pendingWrites' =
                   IF viaApi THEN Append(pendingWrites, arg) ELSE pendingWrites
            /\ clipboard' = IF viaFallback THEN fb.clipboard ELSE clipboard
            /\ pendingBody' = IF viaFallback
                              THEN pendingBody \cup BodyObservers
                              ELSE pendingBody
            /\ toneValue' = IF isTone THEN SelectToneValue(target) ELSE toneValue
            /\ ev' = [NoEffect EXCEPT
                   !.kind = "keydown", !.key = key, !.alt = alt,
                   !.prevented = isCopy \/ isSwap \/ isTone,
                   !.copyCalls = IF doCopy THEN << arg >> ELSE << >>,
                   !.fallbackCalls = IF viaFallback THEN << arg >> ELSE << >>,
                   !.clicks = IF isSwap /\ swapExists
                              THEN << "tta_revIcon" >> ELSE << >>,
                   !.events = IF isTone THEN SelectToneEvents(target)
                              ELSE << >>,
                   !.escaped = viaFallback /\ fb.escaped]
            /\ UNCHANGED << initialized, inputExists, outputExists, inputHTML,
                            outputText, toneExists, swapExists, clipboardApi,
                            lineVars, keydownListeners, setupVars >>

\* A key goes down while the listener is registered.
Keydown ==
    /\ Idle
    /\ keydownListeners > 0
    /\ \E alt \in BOOLEAN, key \in Keys : HandleKeydown(alt, key)

SettleFrame ==
    UNCHANGED << initialized, pageVars, clipboardApi, lineVars,
                 keydownListeners, setupVars >>

\* A writeText promise is fulfilled.
ClipboardResolve ==
    /\ Idle
    /\ \E i \in 1..Len(pendingWrites) :
        /\ clipboard' = pendingWrites[i]
        /\ pendingWrites' = SubSeq(pendingWrites, 1, i - 1)
                                \o SubSeq(pendingWrites, i + 1, Len(pendingWrites))
        /\ ev' = [NoEffect EXCEPT !.kind = "writeResolved",
                                  !.settled = << pendingWrites[i] >>]
    /\ UNCHANGED pendingBody
    /\ SettleFrame

ClipboardRejectNoCatch ==
    /\ Idle
    /\ \E i \in 1..Len(pendingWrites) :
        /\ clipboard' = clipboard
        /\ pendingWrites' = SubSeq(pendingWrites, 1, i - 1)
                                \o SubSeq(pendingWrites, i + 1, Len(pendingWrites))
        /\ ev' = [NoEffect EXCEPT !.kind = "writeRejected",
                                  !.settled = << pendingWrites[i] >>]
    /\ UNCHANGED pendingBody
    /\ SettleFrame

\* A writeText promise is rejected: the catch handler runs.
ClipboardReject ==
    /\ Idle
    /\ \E i \in 1..Len(pendingWrites), outcome \in ExecOutcomes :
        LET fb == FallbackCopyText(pendingWrites[i], outcome)
        IN  /\ clipboard' = fb.clipboard
            /\ pendingWrites' = SubSeq(pendingWrites, 1, i - 1)
                                    \o SubSeq(pendingWrites, i + 1, Len(pendingWrites))
            /\ ev' = [NoEffect EXCEPT !.kind = "writeRejected",
                                      !.settled = << pendingWrites[i] >>,
                                      !.fallbackCalls = << pendingWrites[i] >>,
                                      !.escaped = fb.escaped]
    /\ pendingBody' = pendingBody \cup BodyObservers
    /\ SettleFrame

\* ------------------------------------------------------------------------
\* initialize
\* ------------------------------------------------------------------------

\* What #tta_srcsl or #tta_tgtsl shows.
DropdownState(d) == IF d = "tta_srcsl" THEN srcDropdown ELSE tgtDropdown

\* The state the setup functions of initialize() read and change, with the
\* clicks, setInterval calls and events they have made so far.
ScriptState ==
    [topBarExists |-> topBarExists,
     styleInjected |-> styleInjected,
     lastProcessedInputHTML |-> lastProcessedInputHTML,
     lastProcessedOutputText |-> lastProcessedOutputText,
     inputObserved |-> inputObserved,
     inputListener |-> inputListener,
     outputObserved |-> outputObserved,
     intervalActive |-> intervalActive,
     copyIconHidden |-> copyIconHidden,
     fixedButtonExists |-> fixedButtonExists,
     fixedTitle |-> fixedTitle,
     clickHandlers |-> clickHandlers,
     fixedCopyButtonInitialized |-> fixedCopyButtonInitialized,
     copyObserver |-> copyObserver,
     langObservers |-> langObservers,
     toneValue |-> toneValue,
     keydownListeners |-> keydownListeners,
     pendingBody |-> pendingBody,
     clicks |-> << >>,
     intervals |-> << >>,
     events |-> << >>]

\* The observers of document.body connected in script state S.
BodyObserversOf(S) ==
    (IF S.copyObserver THEN {"copy"} ELSE {}) \cup S.langObservers

\* document.body.prepend(customTopBar)
CreateTopBar(S) ==
    [S EXCEPT !.topBarExists = TRUE,
              !.pendingBody = @ \cup BodyObserversOf(S)]

ApplyCustomStylesInBody(S) ==
    [S EXCEPT !.styleInjected = TRUE,
              !.pendingBody = @ \cup BodyObserversOf(S)]

\* applyCustomStyles(): the style element goes into document.head.
ApplyCustomStyles(S) == [S EXCEPT !.styleInjected = TRUE]

PreserveBingLineBreaksNoInterval(S) ==
    IF ~OnBing THEN S
    ELSE [S EXCEPT !.lastProcessedInputHTML = Empty,
                   !.lastProcessedOutputText = Empty,
                   !.inputObserved = inputExists,
                   !.inputListener = inputExists,
                   !.outputObserved = outputExists]

\* preserveBingLineBreaks(): the last-seen strings, the observers and the
\* listener on the elements that exist, and the interval.
PreserveBingLineBreaks(S) ==
    IF ~OnBing THEN S
    ELSE [S EXCEPT !.lastProcessedInputHTML = Empty,
                   !.lastProcessedOutputText = Empty,
                   !.inputObserved = inputExists,
                   !.inputListener = inputExists,
                   !.outputObserved = outputExists,
                   !.intervalActive = TRUE,
                   !.intervals = Append(@, IntervalPeriod)]

\* overrideBingCopyButton(): hides the original icon, creates the fixed
\* button in the custom top bar with its click listener unless the button is
\* there already, and starts the observer that keeps the original hidden.
\* Without the top bar it returns after hiding the original icon.
OverrideBingCopyButton(S) ==
    IF ~OnBing \/ S.fixedCopyButtonInitialized THEN S
    ELSE LET hidden == [S EXCEPT !.copyIconHidden = copyIconExists \/ @]
         IN  IF S.fixedButtonExists
             THEN [hidden EXCEPT !.copyObserver = TRUE]
             ELSE IF ~S.topBarExists THEN hidden
             ELSE [hidden EXCEPT
                      !.fixedButtonExists = TRUE,
                      !.fixedTitle = "Copy",
                      !.pendingBody = @ \cup BodyObserversOf(S),
                      !.clickHandlers = @ + 1,
                      !.fixedCopyButtonInitialized = TRUE,
                      !.copyObserver = TRUE]

\* selectLanguage(dropdownSelector, languageText)
SelectLanguage(S, d) ==
    IF DropdownState(d) = "other"
    THEN [S EXCEPT !.clicks = Append(@, d),
                   !.langObservers = @ \cup {d}]
    ELSE S

\* setDefaultLanguages(): the source dropdown, then the target dropdown.
SetDefaultLanguages(S) ==
    IF ~OnBing THEN S
    ELSE SelectLanguage(SelectLanguage(S, "tta_srcsl"), "tta_tgtsl")

\* selectTone('Casual') as initialize() calls it.
SelectDefaultTone(S) ==
    [S EXCEPT !.toneValue = SelectToneValue("Casual"),
              !.events = @ \o SelectToneEvents("Casual")]

\* document.addEventListener('keydown', handleKeydown, false)
AddKeydownListener(S) == [S EXCEPT !.keydownListeners = @ + 1]

\* The five setup actions of initialize() that follow the creation of the
\* top bar.
SetupSteps == {"styles", "lines", "copy", "defaults", "keys"}

SetupStep(name, S) ==
    CASE name = "styles" -> ApplyCustomStyles(S)
      [] name = "lines" -> PreserveBingLineBreaks(S)
      [] name = "copy" -> OverrideBingCopyButton(S)
      [] name = "defaults" -> SelectDefaultTone(SetDefaultLanguages(S))
      [] name = "keys" -> AddKeydownListener(S)

\* The setup actions run in the given order from script state S.
RECURSIVE RunSetup(_, _)
RunSetup(order, S) ==
    IF order = << >> THEN S
    ELSE RunSetup(Tail(order), SetupStep(Head(order), S))

\* The order in which initialize() calls them.
InitializeOrder == << "styles", "lines", "copy", "defaults", "keys" >>

\* How often element e is in the sequence of clicks.
ClickCount(clicks, e) == Cardinality({i \in 1..Len(clicks) : clicks[i] = e})

\* initialize(): the custom top bar, applyCustomStyles,
\* preserveBingLineBreaks, overrideBingCopyButton, setDefaultLanguages,
\* selectTone('Casual') and the registration of the keydown listener.
Initialize ==
    /\ ~initialized
    /\ initialized' = TRUE
    /\ LET R == RunSetup(InitializeOrder, CreateTopBar(ScriptState))
       IN  /\ topBarExists' = R.topBarExists
           /\ styleInjected' = R.styleInjected
           /\ lastProcessedInputHTML' = R.lastProcessedInputHTML
           /\ lastProcessedOutputText' = R.lastProcessedOutputText
           /\ inputObserved' = R.inputObserved
           /\ inputListener' = R.inputListener
           /\ outputObserved' = R.outputObserved
           /\ intervalActive' = R.intervalActive
           /\ copyIconHidden' = R.copyIconHidden
           /\ fixedButtonExists' = R.fixedButtonExists
           /\ fixedTitle' = R.fixedTitle
           /\ clickHandlers' = R.clickHandlers
           /\ fixedCopyButtonInitialized' = R.fixedCopyButtonInitialized
           /\ copyObserver' = R.copyObserver
           /\ langObservers' = R.langObservers
           /\ toneValue' = R.toneValue
           /\ keydownListeners' = R.keydownListeners
           /\ pendingBody' = R.pendingBody
           /\ langClicks' = [d \in Dropdowns |->
                  [langClicks[d] EXCEPT !.open = @ + ClickCount(R.clicks, d)]]
           /\ ev' = [NoEffect EXCEPT !.kind = "initialize",
                                     !.clicks = R.clicks,
                                     !.intervals = R.intervals,
                                     !.events = R.events]
    /\ UNCHANGED << inputExists, outputExists, inputHTML, outputText,
                    toneExists, swapExists, clipVars, retryTimers, inputTimers,
                    pendingObservers, scriptWrites, copyIconExists,
                    fixedOpacity, srcDropdown, tgtDropdown, menuItems,
                    expanded, closeTimers, resetTimers >>

\* ------------------------------------------------------------------------
\* The copy button and the language lists
\* ------------------------------------------------------------------------

\* The observer of the body whose callback runs next: they are notified in
\* the order in which initialize() created them.
NextBodyObserver ==
    IF "copy" \in pendingBody THEN "copy"
    ELSE IF "tta_srcsl" \in pendingBody THEN "tta_srcsl"
    ELSE "tta_tgtsl"

LanguageObserversKept(d, found) == langObservers

\* The language-list observers connected after the callback of dropdown d's
\* observer: it disconnects itself when it has found the wanted item.
LanguageObserversAfter(d, found) ==
    IF found THEN langObservers \ {d} ELSE langObservers

\* An observer of document.body delivers its records, after the observers of
\* the input and output elements, which were created before it.
BodyObserverCallback ==
    /\ pendingObservers = {}
    /\ pendingBody # {}
    /\ LET o == NextBodyObserver
           found == o \in menuItems
       IN  /\ pendingBody' = pendingBody \ {o}
           /\ IF o = "copy"
              THEN /\ copyIconHidden' = (copyIconHidden \/ copyIconExists)
                   /\ ev' = [NoEffect EXCEPT !.kind = "copyObserver"]
                   /\ UNCHANGED << langObservers, closeTimers, langClicks >>
              ELSE /\ langObservers' = LanguageObserversAfter(o, found)
                   /\ closeTimers' = IF found THEN closeTimers \cup {o}
                                     ELSE closeTimers
                   /\ langClicks' =
                          IF found
                          THEN [langClicks EXCEPT ![o].item = @ + 1]
                          ELSE langClicks
                   /\ ev' = [NoEffect EXCEPT
                          !.kind = "languageObserver",
                          !.key = o,
                          !.clicks = IF found THEN << "tta_menu_item" >>
                                     ELSE << >>,
                          !.scheduled = IF found THEN << CloseDelay >>
                                        ELSE << >>]
                   /\ UNCHANGED copyIconHidden
    /\ UNCHANGED << initialized, pageVars, clipVars, lineVars,
                    keydownListeners, styleInjected, topBarExists,
                    copyIconExists, fixedCopyButtonInitialized,
                    fixedButtonExists, fixedTitle, fixedOpacity, copyObserver,
                    srcDropdown, tgtDropdown, menuItems, expanded,
                    resetTimers, clickHandlers >>

\* The 100 ms timeout set after the item click fires: the dropdown is clicked
\* again if it is still expanded.
CloseTimerFire ==
    /\ Idle
    /\ \E d \in closeTimers :
        /\ closeTimers' = closeTimers \ {d}
        /\ langClicks' = IF d \in expanded
                         THEN [langClicks EXCEPT ![d].close = @ + 1]
                         ELSE langClicks
        /\ ev' = [NoEffect EXCEPT
               !.kind = "closeTimer",
               !.key = d,
               !.clicks = IF d \in expanded THEN << d >> ELSE << >>]
    /\ UNCHANGED << initialized, pageVars, clipVars, lineVars,
                    keydownListeners, styleInjected, topBarExists,
                    copyIconExists, copyIconHidden,
                    fixedCopyButtonInitialized, fixedButtonExists, fixedTitle,
                    fixedOpacity, copyObserver, srcDropdown, tgtDropdown,
                    langObservers, menuItems, expanded, resetTimers,
                    clickHandlers, pendingBody >>

OutputTextPresentOrBlank == outputExists

\* outputTextarea && outputTextarea.innerText
OutputTextPresent == outputExists /\ outputText # Empty

\* The click listener of the fixed copy button.
CopyButtonClick ==
    /\ Idle
    /\ fixedButtonExists
    /\ clickHandlers > 0
    /\ \E outcome \in ExecOutcomes :
        LET doCopy == OutputTextPresent
            arg == CopyArgument(outputText)
            viaApi == doCopy /\ clipboardApi
            viaFallback == doCopy /\ ~clipboardApi
            fb == FallbackCopyText(arg, outcome)
        IN  /\ viaApi => Len(pendingWrites) < MaxPending
            /\ doCopy => Len(resetTimers) < MaxResetTimers
            /\ pendingWrites' =
                   IF viaApi THEN Append(pendingWrites, arg) ELSE pendingWrites
            /\ clipboard' = IF viaFallback THEN fb.clipboard ELSE clipboard
            /\ pendingBody' = IF viaFallback
                              THEN pendingBody \cup BodyObservers
                              ELSE pendingBody
            /\ fixedTitle' = IF doCopy THEN "Copied!" ELSE fixedTitle
            /\ fixedOpacity' = IF doCopy THEN "0.6" ELSE fixedOpacity
            /\ resetTimers' = IF doCopy THEN Append(resetTimers, fixedTitle)
                              ELSE resetTimers
            /\ ev' = [NoEffect EXCEPT
                   !.kind = "copyClick",
                   !.prevented = TRUE,
                   !.stopped = TRUE,
                   !.copyCalls = IF doCopy THEN << arg >> ELSE << >>,
                   !.fallbackCalls = IF viaFallback THEN << arg >> ELSE << >>,
                   !.scheduled = IF doCopy THEN << ResetDelay >> ELSE << >>,
                   !.escaped = viaFallback /\ fb.escaped]
    /\ UNCHANGED << initialized, pageVars, clipboardApi, lineVars,
                    keydownListeners, styleInjected, topBarExists,
                    copyIconExists, copyIconHidden,
                    fixedCopyButtonInitialized, fixedButtonExists,
                    copyObserver, srcDropdown, tgtDropdown, langObservers,
                    menuItems, expanded, closeTimers, langClicks,
                    clickHandlers >>

\* The oldest 1000 ms timeout of the click listener fires: the title its
\* click captured is put back and the opacity override is removed.
ResetTimerFire ==
    /\ Idle
    /\ resetTimers # << >>
    /\ fixedTitle' = Head(resetTimers)
    /\ fixedOpacity' = ""
    /\ resetTimers' = Tail(resetTimers)
    /\ ev' = [NoEffect EXCEPT !.kind = "resetTimer"]
    /\ UNCHANGED << initialized, pageVars, clipVars, lineVars,
                    keydownListeners, styleInjected, topBarExists,
                    copyIconExists, copyIconHidden,
                    fixedCopyButtonInitialized, fixedButtonExists,
                    copyObserver, srcDropdown, tgtDropdown, langObservers,
                    menuItems, expanded, closeTimers, langClicks,
                    clickHandlers, pendingBody >>

\* ------------------------------------------------------------------------
\* The host page
\* ------------------------------------------------------------------------

HostEv == [NoEffect EXCEPT !.kind = "host"]

HostRenderFrame ==
    /\ ev' = HostEv
    /\ pendingBody' = pendingBody \cup BodyObservers
    /\ UNCHANGED << initialized, inputHTML, outputText, toneValue, clipVars,
                    lineVars, keydownListeners, setupVars >>

\* The host page adds the input element.
HostRenderInput ==
    /\ Idle
    /\ ~inputExists
    /\ inputExists' = TRUE
    /\ UNCHANGED << outputExists, toneExists, swapExists >>
    /\ HostRenderFrame

\* The host page adds the output element.
HostRenderOutput ==
    /\ Idle
    /\ ~outputExists
    /\ outputExists' = TRUE
    /\ UNCHANGED << inputExists, toneExists, swapExists >>
    /\ HostRenderFrame

\* The host page adds the tone selector.
HostRenderTone ==
    /\ Idle
    /\ ~toneExists
    /\ toneExists' = TRUE
    /\ UNCHANGED << inputExists, outputExists, swapExists >>
    /\ HostRenderFrame

\* The host page adds the swap button.
HostRenderSwap ==
    /\ Idle
    /\ ~swapExists
    /\ swapExists' = TRUE
    /\ UNCHANGED << inputExists, outputExists, toneExists >>
    /\ HostRenderFrame

\* The input changes: the user types (an 'input' event) or the host sets it.
HostSetInput ==
    /\ Idle
    /\ inputExists
    /\ \E v \in HostInputs, typed \in BOOLEAN :
        /\ inputHTML' = v
        /\ pendingObservers' = IF inputObserved THEN pendingObservers \cup {"input"}
                               ELSE pendingObservers
        /\ IF typed /\ inputListener
           THEN /\ inputTimers < MaxInputTimers
                /\ inputTimers' = inputTimers + 1
                /\ ev' = [HostEv EXCEPT !.scheduled = << InputDelay >>]
           ELSE /\ inputTimers' = inputTimers
                /\ ev' = HostEv
    /\ pendingBody' = pendingBody \cup BodyObservers
    /\ scriptWrites' = 0
    /\ UNCHANGED << initialized, inputExists, outputExists, outputText,
                    toneExists, toneValue, swapExists, clipVars,
                    lastProcessedInputHTML, lastProcessedOutputText,
                    intervalActive, retryTimers, inputObserved, outputObserved,
                    inputListener, keydownListeners, setupVars >>

\* The host page renders a translation into the output.
HostSetOutput ==
    /\ Idle
    /\ outputExists
    /\ \E v \in HostOutputs :
        /\ outputText' = v
        /\ pendingObservers' = IF outputObserved THEN pendingObservers \cup {"output"}
                               ELSE pendingObservers
    /\ ev' = HostEv
    /\ pendingBody' = pendingBody \cup BodyObservers
    /\ scriptWrites' = 0
    /\ UNCHANGED << initialized, inputExists, outputExists, inputHTML,
                    toneExists, toneValue, swapExists, clipVars,
                    lastProcessedInputHTML, lastProcessedOutputText,
                    intervalActive, retryTimers, inputTimers, inputObserved,
                    outputObserved, inputListener, keydownListeners, setupVars >>

\* The user picks a tone in the selector.
HostSetTone ==
    /\ Idle
    /\ toneExists
    /\ \E v \in ToneValues : toneValue' = v
    /\ ev' = HostEv
    /\ UNCHANGED << pendingBody, initialized, inputExists, outputExists, inputHTML,
                    outputText, toneExists, swapExists, clipVars, lineVars,
                    keydownListeners, setupVars >>

\* The host page puts the wanted item of a dropdown's language list into
\* the document.
HostRenderMenu ==
    /\ Idle
    /\ \E d \in Dropdowns \ menuItems : menuItems' = menuItems \cup {d}
    /\ ev' = HostEv
    /\ pendingBody' = pendingBody \cup BodyObservers
    /\ UNCHANGED << initialized, pageVars, clipVars, lineVars,
                    keydownListeners, styleInjected, topBarExists,
                    copyIconExists, copyIconHidden,
                    fixedCopyButtonInitialized, fixedButtonExists, fixedTitle,
                    fixedOpacity, copyObserver, srcDropdown, tgtDropdown,
                    langObservers, expanded, closeTimers, langClicks,
                    resetTimers, clickHandlers >>

\* The host page opens or closes a dropdown: its aria-expanded attribute
\* changes.
HostSetExpanded ==
    /\ Idle
    /\ \E d \in Dropdowns :
        /\ DropdownState(d) # "missing"
        /\ expanded' = IF d \in expanded THEN expanded \ {d}
                       ELSE expanded \cup {d}
    /\ ev' = HostEv
    /\ UNCHANGED << initialized, pageVars, clipVars, lineVars,
                    keydownListeners, styleInjected, topBarExists,
                    copyIconExists, copyIconHidden,
                    fixedCopyButtonInitialized, fixedButtonExists, fixedTitle,
                    fixedOpacity, copyObserver, srcDropdown, tgtDropdown,
                    langObservers, menuItems, closeTimers, langClicks,
                    resetTimers, clickHandlers, pendingBody >>

\* The host page renders its own copy icon anew, visible.
HostShowCopyIcon ==
    /\ Idle
    /\ ~copyIconExists \/ copyIconHidden
    /\ copyIconExists' = TRUE
    /\ copyIconHidden' = FALSE
    /\ ev' = HostEv
    /\ pendingBody' = pendingBody \cup BodyObservers
    /\ UNCHANGED << initialized, pageVars, clipVars, lineVars,
                    keydownListeners, styleInjected, topBarExists,
                    fixedCopyButtonInitialized, fixedButtonExists, fixedTitle,
                    fixedOpacity, copyObserver, srcDropdown, tgtDropdown,
                    langObservers, menuItems, expanded, closeTimers,
                    langClicks, resetTimers, clickHandlers >>

\* ------------------------------------------------------------------------
\* Specifications
\* ------------------------------------------------------------------------

\* The page when the script starts: any of the elements may be missing, and
\* those present hold what the host page has put there.
Init ==
    /\ initialized = FALSE
    /\ inputExists \in BOOLEAN
    /\ outputExists \in BOOLEAN
    /\ toneExists \in BOOLEAN
    /\ swapExists \in BOOLEAN
    /\ inputHTML \in (IF inputExists THEN HostInputs ELSE {Empty})
    /\ outputText \in (IF outputExists THEN HostOutputs ELSE {Empty})
    /\ toneValue = "Standard"
    /\ clipboardApi \in BOOLEAN
    /\ pendingWrites = << >>
    /\ clipboard = Empty
    /\ lastProcessedInputHTML = Empty
    /\ lastProcessedOutputText = Empty
    /\ intervalActive = FALSE
    /\ retryTimers = 0
    /\ inputTimers = 0
    /\ inputObserved = FALSE
    /\ outputObserved = FALSE
    /\ inputListener = FALSE
    /\ pendingObservers = {}
    /\ keydownListeners = 0
    /\ styleInjected = FALSE
    /\ topBarExists = FALSE
    /\ copyIconExists \in BOOLEAN
    /\ copyIconHidden = FALSE
    /\ fixedCopyButtonInitialized = FALSE
    /\ fixedButtonExists = FALSE
    /\ fixedTitle = ""
    /\ fixedOpacity = ""
    /\ copyObserver = FALSE
    /\ srcDropdown \in DropdownStates
    /\ tgtDropdown \in DropdownStates
    /\ langObservers = {}
    /\ pendingBody = {}
    /\ scriptWrites = 0
    /\ menuItems \in SUBSET Dropdowns
    /\ expanded = {}
    /\ closeTimers = {}
    /\ langClicks = [d \in Dropdowns |-> [open |-> 0, item |-> 0, close |-> 0]]
    /\ resetTimers = << >>
    /\ clickHandlers = 0
    /\ ev = NoEffect

Next ==
    \/ Initialize
    \/ HostRenderInput
    \/ HostRenderOutput
    \/ HostRenderTone
    \/ HostRenderSwap
    \/ HostSetInput
    \/ HostSetOutput
    \/ HostSetTone
    \/ HostRenderMenu
    \/ HostSetExpanded
    \/ HostShowCopyIcon
    \/ ObserverCallback
    \/ BodyObserverCallback
    \/ InputTimerFire
    \/ RetryFire
    \/ IntervalTick
    \/ Keydown
    \/ ClipboardResolve
    \/ ClipboardReject
    \/ CloseTimerFire
    \/ CopyButtonClick
    \/ ResetTimerFire

\* The whole script on the host page.
Spec == Init /\ [][Next]_vars

\* The line-break component: the page's tone selector, swap button, copy
\* icon, language dropdowns and clipboard stay as they are, and no key is
\* pressed.
InitLines ==
    /\ Init
    /\ toneExists /\ swapExists /\ clipboardApi
    /\ copyIconExists /\ srcDropdown = "other" /\ tgtDropdown = "other"
    /\ menuItems = {}

NextLines ==
    \/ Initialize
    \/ HostRenderInput
    \/ HostRenderOutput
    \/ HostSetInput
    \/ HostSetOutput
    \/ ObserverCallback
    \/ BodyObserverCallback
    \/ InputTimerFire
    \/ RetryFire
    \/ IntervalTick

SpecLines == InitLines /\ [][NextLines]_vars

\* The line-break component with its scheduling: a mutation record delivered
\* to an observer of document.body is handled before any other task runs.
SpecLinesFair == SpecLines /\ WF_vars(BodyObserverCallback)

\* The keyboard component: the input element is there and keeps its content,
\* the copy icon and the language dropdowns stay as they are; the output is
\* rewritten by the host page and by the observers.
InitKeys ==
    /\ Init
    /\ inputExists
    /\ copyIconExists /\ srcDropdown = "wanted" /\ tgtDropdown = "wanted"
    /\ menuItems = {}

NextKeys ==
    \/ Initialize
    \/ HostRenderOutput
    \/ HostRenderTone
    \/ HostRenderSwap
    \/ HostSetOutput
    \/ HostSetTone
    \/ ObserverCallback
    \/ BodyObserverCallback
    \/ Keydown
    \/ ClipboardResolve
    \/ ClipboardReject

SpecKeys == InitKeys /\ [][NextKeys]_vars

\* The copy-button component: the output element appears before or after
\* initialize(), the host page rewrites it and shows its own copy icon again,
\* and the fixed copy button is clicked; the language dropdowns show the
\* wanted languages and no timer of the line-break component fires.
InitCopy ==
    /\ Init
    /\ inputExists /\ inputHTML = << "a" >> /\ ~outputExists
    /\ toneExists /\ swapExists /\ copyIconExists
    /\ srcDropdown = "wanted" /\ tgtDropdown = "wanted"
    /\ menuItems = {}

NextCopy ==
    \/ Initialize
    \/ HostRenderOutput
    \/ HostSetOutput
    \/ HostShowCopyIcon
    \/ ObserverCallback
    \/ BodyObserverCallback
    \/ CopyButtonClick
    \/ ResetTimerFire
    \/ ClipboardResolve
    \/ ClipboardReject

SpecCopy == InitCopy /\ [][NextCopy]_vars

\* The setup component: initialize() on a page whose input and output
\* elements, copy icon, language dropdowns and language lists vary, and after
\* it the language lists, the observers of the body and the closing
\* timeouts.
InitLanguages ==
    /\ Init
    /\ inputHTML = Empty /\ outputText = Empty
    /\ toneExists /\ swapExists /\ clipboardApi

NextLanguages ==
    \/ Initialize
    \/ HostRenderMenu
    \/ HostSetExpanded
    \/ HostShowCopyIcon
    \/ BodyObserverCallback
    \/ CloseTimerFire

SpecLanguages == InitLanguages /\ [][NextLanguages]_vars

\* The resegmentation as a function of the input HTML and the output text:
\* the script is set up on a page that holds both elements, with any input
\* and any output of the bounded lengths, and the interval and the output's
\* observer invoke processTranslationLineBreaks.
InitSegment ==
    /\ initialized = TRUE
    /\ inputExists = TRUE
    /\ outputExists = TRUE
    /\ toneExists = TRUE
    /\ swapExists = TRUE
    /\ inputHTML \in Strings(InChars, MaxInLen)
    /\ outputText \in Strings(OutChars, MaxOutLen) \cup LeadingTerminatorOutputs
    /\ toneValue = "Casual"
    /\ clipboardApi = TRUE
    /\ pendingWrites = << >>
    /\ clipboard = Empty
    /\ lastProcessedInputHTML = Empty
    /\ lastProcessedOutputText = Empty
    /\ intervalActive = TRUE
    /\ retryTimers = 0
    /\ inputTimers = 0
    /\ inputObserved = TRUE
    /\ outputObserved = TRUE
    /\ inputListener = TRUE
    /\ pendingObservers = {}
    /\ keydownListeners = 1
    /\ styleInjected = TRUE
    /\ topBarExists = TRUE
    /\ copyIconExists = TRUE
    /\ copyIconHidden = TRUE
    /\ fixedCopyButtonInitialized = TRUE
    /\ fixedButtonExists = TRUE
    /\ fixedTitle = "Copy"
    /\ fixedOpacity = ""
    /\ copyObserver = TRUE
    /\ srcDropdown = "wanted"
    /\ tgtDropdown = "wanted"
    /\ langObservers = {}
    /\ pendingBody = {}
    /\ scriptWrites = 0
    /\ menuItems = {}
    /\ expanded = {}
    /\ closeTimers = {}
    /\ langClicks = [d \in Dropdowns |-> [open |-> 0, item |-> 0, close |-> 0]]
    /\ resetTimers = << >>
    /\ clickHandlers = 1
    /\ ev = NoEffect

NextSegment ==
    \/ IntervalTick
    \/ ObserverCallback
    \/ BodyObserverCallback

SpecSegment == InitSegment /\ [][NextSegment]_vars

\* ------------------------------------------------------------------------
\* Properties
\* ------------------------------------------------------------------------

\* The step is an invocation of processTranslationLineBreaks.
IsProcessStep == ev'.kind \in ProcessKinds
\* The step is the keydown listener handling the given key.
IsKeydownStep(alt, key) ==
    ev'.kind = "keydown" /\ ev'.alt = alt /\ ev'.key = key

NonBlankCount(lines) == Cardinality({j \in 1..Len(lines) : ~IsBlank(lines[j])})
\* How many non-blank lines there are among the first i.
Rank(lines, i) == Cardinality({j \in 1..i : ~IsBlank(lines[j])})

\* C1: an Alt+A keydown with the tone selector present sets the tone to
\* 'Formal' if it was 'Casual' and to 'Casual' in every other case, so the
\* tone is 'Casual' or 'Formal' after it and successive presses alternate.
C1_AltAToggles ==
    [][(IsKeydownStep(TRUE, "a") /\ toneExists) =>
          /\ toneValue' = (IF toneValue = "Casual" THEN "Formal" ELSE "Casual")
          /\ toneValue' \in {"Casual", "Formal"}
          /\ toneValue' # toneValue]_vars

C1_Witness ==
    /\ ev.kind = "keydown" /\ ev.alt /\ ev.key = "a"
    /\ toneExists
    /\ toneValue = "Formal"

\* C2: an Alt+Z keydown calls copyPlainText exactly once, with the trimmed
\* output text, if the output element exists and its text is non-empty, and
\* copies nothing otherwise; it leaves output, input and tone unchanged.
C2_AltZCopies ==
    [][IsKeydownStep(TRUE, "z") =>
          /\ ev'.copyCalls = (IF outputExists /\ outputText # Empty
                              THEN << Trim(outputText) >> ELSE << >>)
          /\ (ev'.copyCalls = << >> =>
                 /\ ev'.fallbackCalls = << >>
                 /\ UNCHANGED << pendingWrites, clipboard >>)
          /\ UNCHANGED << outputText, inputHTML, toneValue >>]_vars

C2_Witness ==
    /\ ev.kind = "keydown" /\ ev.alt /\ ev.key = "z"
    /\ ev.copyCalls = << << "a" >> >>
    /\ outputText = << "a", NL >>

\* C3: initialize registers exactly one keydown listener; a keydown triggers
\* at most one of copy, swap click and tone toggle; a keydown without Alt or
\* with another key triggers none of them and changes no state.
C3_OneShortcut ==
    [][/\ keydownListeners' = (IF initialized' THEN 1 ELSE 0)
       /\ ev'.kind = "keydown" =>
             LET copied == ev'.copyCalls # << >>
                 swapped == ev'.clicks # << >>
                 toned == toneValue' # toneValue \/ ev'.events # << >>
             IN  /\ ~(copied /\ swapped) /\ ~(copied /\ toned)
                 /\ ~(swapped /\ toned)
                 /\ (copied => ev'.key = "z") /\ (swapped => ev'.key = "s")
                 /\ (toned => ev'.key = "a")
                 /\ (~ev'.alt \/ ev'.key \notin {"z", "s", "a"}) =>
                       /\ ~copied /\ ~swapped /\ ~toned
                       /\ ~ev'.prevented
                       /\ UNCHANGED << initialized, pageVars, clipVars,
                                       lineVars, keydownListeners,
                                       setupVars, pendingBody >>]_vars

C3_Witness ==
    /\ ev.kind = "keydown" /\ ~ev.alt /\ ev.key = "z"
    /\ outputExists /\ outputText # Empty
    /\ keydownListeners = 1

\* C4: an invocation of processTranslationLineBreaks that finds both
\* elements and finds input HTML and output text equal to the last-seen
\* values writes nothing, dispatches nothing and keeps the last-seen values.
C4_SkipsWhenSeen ==
    [][(/\ IsProcessStep
        /\ inputExists /\ outputExists
        /\ inputHTML = lastProcessedInputHTML
        /\ outputText = lastProcessedOutputText) =>
          /\ ~ev'.wrote
          /\ ev'.events = << >>
          /\ ev'.scheduled = << >>
          /\ UNCHANGED << outputText, lastProcessedInputHTML,
                          lastProcessedOutputText >>]_vars

C4_Witness ==
    /\ ev.kind \in ProcessKinds
    /\ ev.stage = "skipped"
    /\ inputHTML = lastProcessedInputHTML
    /\ outputText = lastProcessedOutputText
    /\ outputText # ComputedOutput(inputHTML, outputText)

\* C5: processTranslationLineBreaks writes the output only when its current
\* text differs from the text it has just computed; when they are equal it
\* writes nothing and dispatches no event.
C5_WritesOnlyOnDifference ==
    [][IsProcessStep =>
          LET computed == ComputedOutput(inputHTML, outputText)
          IN  /\ ev'.wrote => (outputText # computed /\ outputText' = computed)
              /\ outputText = computed =>
                    /\ ~ev'.wrote
                    /\ ev'.events = << >>
                    /\ outputText' = outputText]_vars

C5_Witness ==
    /\ ev.kind \in ProcessKinds
    /\ ev.stage = "resegmented"
    /\ ~ev.wrote
    /\ outputText # Empty
    /\ outputText = ComputedOutput(inputHTML, outputText)

\* C6: once preserveBingLineBreaks has run the interval is never cancelled:
\* the interval is set in every state reached afterwards, whatever the
\* observers, the retry timers and the writes have done, so that its tick
\* (IntervalTick, which waits only for the pending observer callbacks) can
\* fire again.
C6_IntervalNeverCancelled ==
    initialized => intervalActive

C6_Witness ==
    /\ initialized
    /\ ev.kind = "interval"
    /\ ev.wrote
    /\ retryTimers > 0

\* C7: an invocation that finds the input or the output element missing
\* schedules exactly one retry 500 ms later and does nothing else.
C7_RetryWhenMissing ==
    [][(IsProcessStep /\ (~inputExists \/ ~outputExists)) =>
          /\ ev'.scheduled = << 500 >>
          /\ retryTimers' =
                 (IF ev'.kind = "retry" THEN retryTimers ELSE retryTimers + 1)
          /\ ~ev'.wrote
          /\ ev'.events = << >>
          /\ UNCHANGED << outputText, inputHTML, lastProcessedInputHTML,
                          lastProcessedOutputText >>]_vars

C7_Witness ==
    /\ ev.kind \in ProcessKinds
    /\ ev.stage = "missing"
    /\ inputExists /\ ~outputExists
    /\ retryTimers = 2

\* C8: copyPlainText(text) calls fallbackCopyText with the same text exactly
\* when the Clipboard API is unavailable or its writeText rejects, never
\* when writeText succeeds, and no failure reaches copyPlainText's caller.
C8_FallbackExactlyOnFailure ==
    [][/\ (ev'.kind = "keydown" /\ ev'.copyCalls # << >>) =>
             /\ ev'.fallbackCalls =
                    (IF clipboardApi THEN << >> ELSE ev'.copyCalls)
             /\ pendingWrites' =
                    (IF clipboardApi
                     THEN Append(pendingWrites, ev'.copyCalls[1])
                     ELSE pendingWrites)
       /\ ev'.kind = "writeRejected" =>
             /\ Len(ev'.settled) = 1
             /\ ev'.fallbackCalls = ev'.settled
             /\ \E i \in 1..Len(pendingWrites) :
                    pendingWrites[i] = ev'.settled[1]
       /\ ev'.kind = "writeResolved" =>
             /\ ev'.fallbackCalls = << >>
             /\ clipboard' = ev'.settled[1]
       /\ ~ev'.escaped]_vars

C8_Witness ==
    /\ ev.kind = "writeRejected"
    /\ ev.fallbackCalls = << << "a" >> >>
    /\ clipboard = << "a" >>

\* C9: when the output text yields k segments and the input has n > k
\* non-blank lines, the first k non-blank input lines receive the k segments
\* in order, every other line receives an empty line, and nothing else is
\* done: the output is the join of these lines.
C9_PlaceholdersWhenShort ==
    ev.stage = "resegmented" =>
        LET lines == InputLines(lastProcessedInputHTML)
            segs == OutputSegments(lastProcessedOutputText)
        IN  NonBlankCount(lines) > Len(segs) =>
                /\ Len(ev.restored) = Len(lines)
                /\ \A i \in 1..Len(lines) :
                       ev.restored[i] =
                           IF ~IsBlank(lines[i]) /\ Rank(lines, i) <= Len(segs)
                           THEN segs[Rank(lines, i)]
                           ELSE Empty
                /\ outputText = Join(ev.restored)

C9_Witness ==
    /\ ev.stage = "resegmented"
    /\ ev.wrote
    /\ Len(OutputSegments(lastProcessedOutputText)) = 1
    /\ NonBlankCount(InputLines(lastProcessedInputHTML)) = 2
    /\ ev.restored = << OutputSegments(lastProcessedOutputText)[1], Empty >>

\* C10: whenever processTranslationLineBreaks writes a resegmented text for
\* an input with a non-blank line, the written text has exactly as many
\* lines as the input.
C10_KeepsLineCount ==
    (ev.kind \in ProcessKinds /\ ev.stage = "resegmented" /\ ev.wrote) =>
        Len(Split(outputText)) = Len(InputLines(inputHTML))

\* The segments j..k joined by single spaces.
RECURSIVE SpaceJoin(_, _, _)
SpaceJoin(segs, j, k) ==
    IF j > k THEN Empty
    ELSE IF j = k THEN segs[j]
    ELSE segs[j] \o << " " >> \o SpaceJoin(segs, j + 1, k)

C18_SegmentsKept ==
    ev.stage = "resegmented" =>
        LET lines == InputLines(lastProcessedInputHTML)
            segs == OutputSegments(lastProcessedOutputText)
            n == NonBlankCount(lines)
            k == Len(segs)
            kept == SelectSeq(ev.restored, NonEmpty)
        IN  /\ SpaceJoin(kept, 1, Len(kept)) = SpaceJoin(segs, 1, k)
            /\ Len(ev.restored) = Len(lines)
            /\ \A i \in 1..Len(lines) :
                   ~IsBlank(lines[i]) =>
                       ev.restored[i] =
                           IF Rank(lines, i) < n
                           THEN IF Rank(lines, i) <= k
                                THEN segs[Rank(lines, i)] ELSE Empty
                           ELSE SpaceJoin(segs, n, k)

C18_Witness ==
    /\ ev.stage = "resegmented"
    /\ Len(OutputSegments(lastProcessedOutputText)) = 2
    /\ NonBlankCount(InputLines(lastProcessedInputHTML)) = 1
    /\ Len(InputLines(lastProcessedInputHTML)) > 1
    /\ \E i \in 1..Len(ev.restored) :
           ev.restored[i] = SpaceJoin(OutputSegments(lastProcessedOutputText),
                                      1, 2)

\* C19: blank input lines keep their place: entry i of the restored array is
\* the empty string whenever input line i is blank, also after the surplus
\* segments have been appended.
C19_BlankLinesKept ==
    ev.stage = "resegmented" =>
        LET lines == InputLines(lastProcessedInputHTML)
        IN  /\ Len(ev.restored) >= Len(lines)
            /\ \A i \in 1..Len(lines) :
                   IsBlank(lines[i]) => ev.restored[i] = Empty

C19_Witness ==
    /\ ev.stage = "resegmented"
    /\ Len(OutputSegments(lastProcessedOutputText))
           > NonBlankCount(InputLines(lastProcessedInputHTML))
    /\ LET lines == InputLines(lastProcessedInputHTML)
       IN  /\ IsBlank(lines[Len(lines)])
           /\ ev.restored[Len(lines)] = Empty

SettledAfterTick ==
    /\ initialized
    /\ inputExists
    /\ outputExists
    /\ ev.kind = "interval"
    /\ pendingObservers = {}
    /\ pendingBody = {}
    /\ inputTimers = 0
    /\ retryTimers = 0

\* C15 as stated: the last-seen guard never hides an unprocessed
\* translation: in every state an interval tick leaves with nothing else
\* pending, the output text equals its own resegmentation for the current
\* input.
C15_NeverHidden ==
    SettledAfterTick => outputText = ComputedOutput(inputHTML, outputText)

\* C15, amended: in every state an interval tick leaves without having
\* written and with nothing else pending, the output text equals its own
\* resegmentation for the current input unless the tick was skipped because
\* input HTML and output text are exactly the last-seen values.
C15_HiddenOnlyWhenSeen ==
    (SettledAfterTick /\ ~ev.wrote) =>
        \/ outputText = ComputedOutput(inputHTML, outputText)
        \/ /\ ev.stage = "skipped"
           /\ inputHTML = lastProcessedInputHTML
           /\ outputText = lastProcessedOutputText

C15_Witness ==
    /\ SettledAfterTick
    /\ ev.stage = "skipped"
    /\ inputHTML = lastProcessedInputHTML
    /\ outputText = lastProcessedOutputText
    /\ outputText # ComputedOutput(inputHTML, outputText)

\* C20 as stated: an invocation that finds both elements and every input
\* line blank attempts no segmentation, sets a non-empty output to '' and
\* dispatches the three events once, writes and dispatches nothing when the
\* output is already empty, and leaves the last-seen values equal to the
\* values it read.
C20_ClearsWhenBlank ==
    [][(IsProcessStep /\ inputExists /\ outputExists
          /\ AllBlank(InputLines(inputHTML))) =>
            /\ ev'.stage # "resegmented"
            /\ ev'.restored = << >>
            /\ outputText # Empty =>
                   /\ outputText' = Empty
                   /\ ev'.wrote
                   /\ ev'.events = OutputEvents
            /\ outputText = Empty =>
                   /\ outputText' = Empty
                   /\ ~ev'.wrote
                   /\ ev'.events = << >>
            /\ lastProcessedInputHTML' = inputHTML
            /\ lastProcessedOutputText' = outputText]_vars

\* C20, amended: the same, for an invocation whose input HTML or output text
\* differs from the last-seen values; an invocation that finds both equal to
\* the last-seen values returns before the blank-line check and leaves a
\* non-empty output as it is.
C20_ClearsWhenBlankUnseen ==
    [][(IsProcessStep /\ inputExists /\ outputExists
          /\ AllBlank(InputLines(inputHTML))) =>
            IF inputHTML = lastProcessedInputHTML
                  /\ outputText = lastProcessedOutputText
            THEN /\ ev'.stage = "skipped"
                 /\ ~ev'.wrote
                 /\ ev'.events = << >>
                 /\ UNCHANGED << outputText, lastProcessedInputHTML,
                                 lastProcessedOutputText >>
            ELSE /\ ev'.stage = "cleared"
                 /\ ev'.restored = << >>
                 /\ outputText # Empty =>
                        /\ outputText' = Empty
                        /\ ev'.wrote
                        /\ ev'.events = OutputEvents
                 /\ outputText = Empty =>
                        /\ outputText' = Empty
                        /\ ~ev'.wrote
                        /\ ev'.events = << >>
                 /\ lastProcessedInputHTML' = inputHTML
                 /\ lastProcessedOutputText' = outputText]_vars

C20_Witness ==
    /\ ev.stage = "cleared"
    /\ ev.wrote
    /\ ev.events = OutputEvents
    /\ outputText = Empty
    /\ lastProcessedOutputText # Empty
    /\ AllBlank(InputLines(lastProcessedInputHTML))

\* The orders in which the five setup actions can run.
SetupOrders ==
    {order \in [1..5 -> SetupSteps] :
        \A i, j \in 1..5 : order[i] = order[j] => i = j}

\* Where a setup action stands in an order.
Position(order, name) == CHOOSE i \in 1..5 : order[i] = name

\* What the setup actions leave when run in the given order after the top
\* bar has been created, from the current state.
SetupResult(order) == RunSetup(order, CreateTopBar(ScriptState))

\* The script state initialize() has produced, as the record of its parts.
ScriptStateAfter ==
    [ScriptState' EXCEPT !.clicks = ev'.clicks,
                         !.intervals = ev'.intervals,
                         !.events = ev'.events]

\* C11 as stated: the five setup actions of initialize() have no dependency
\* order: run in any order from the page state initialize() starts in, they
\* produce the script state that initialize() produces.
C11_AnyOrder ==
    [][ev'.kind = "initialize" =>
          \A order \in SetupOrders : SetupResult(order) = ScriptStateAfter]_vars

\* C11, amended: in any order the five setup actions produce the timers,
\* observers, copy button, click listener, requested selections and keydown
\* listener that initialize() produces; the orders differ only in the records
\* pending for the language-list observers, which are notified of the copy
\* button's insertion exactly when the copy button is installed after the
\* default languages are forced.
C11_AnyOrderButPending ==
    [][ev'.kind = "initialize" =>
          \A order \in SetupOrders :
              LET R == SetupResult(order)
              IN  /\ [R EXCEPT !.pendingBody = {}]
                         = [ScriptStateAfter EXCEPT !.pendingBody = {}]
                  /\ pendingBody' = {}
                  /\ R.pendingBody =
                         IF Position(order, "defaults")
                                < Position(order, "copy")
                         THEN langObservers'
                         ELSE {}]_vars

C11_Witness ==
    /\ ev.kind = "initialize"
    /\ langObservers = Dropdowns
    /\ ev.clicks = << "tta_srcsl", "tta_tgtsl" >>
    /\ fixedButtonExists
    /\ clickHandlers = 1
    /\ copyObserver
    /\ intervalActive
    /\ keydownListeners = 1
    /\ pendingBody = {}

C13_ClickCopiesTrimmedText ==
    [][ev'.kind = "copyClick" =>
          /\ ev'.prevented
          /\ ev'.stopped
          /\ IF outputExists /\ outputText # Empty
             THEN ev'.copyCalls = << Trim(outputText) >>
             ELSE /\ ev'.copyCalls = << >>
                  /\ ev'.fallbackCalls = << >>
                  /\ ev'.scheduled = << >>
                  /\ UNCHANGED << fixedTitle, fixedOpacity, clipboard,
                                  pendingWrites, resetTimers >>]_vars

C13_Witness ==
    /\ ev.kind = "copyClick"
    /\ ev.prevented
    /\ ev.stopped
    /\ outputText = << "a", NL >>
    /\ ev.copyCalls = << << "a" >> >>
    /\ fixedTitle = "Copied!"

\* C16: once every 1000 ms timeout of the click listener has fired, the
\* fixed copy button has the title it had before the first click ('Copy')
\* and no opacity override, also when clicks overlap.
C16_FeedbackReverted ==
    (fixedButtonExists /\ resetTimers = << >>) =>
        /\ fixedTitle = "Copy"
        /\ fixedOpacity = ""

\* C23: every invocation of processTranslationLineBreaks that writes the
\* output text dispatches on the output element exactly one 'input', one
\* 'change' and one 'compositionend' event, in that order, and an invocation
\* that does not write dispatches no event; the output text changes exactly
\* in the invocations that write.
C23_EventsFollowWrite ==
    [][IsProcessStep =>
          /\ ev'.wrote <=> outputText' # outputText
          /\ ev'.wrote =>
                 ev'.events = << << "output", "input" >>,
                                 << "output", "change" >>,
                                 << "output", "compositionend" >> >>
          /\ ~ev'.wrote => ev'.events = << >>]_vars

C23_Witness ==
    /\ ev.kind = "observer"
    /\ ev.stage = "resegmented"
    /\ ev.wrote
    /\ Len(ev.events) = 3
    /\ ev.events[1] = << "output", "input" >>
    /\ ev.events[3] = << "output", "compositionend" >>
    /\ scriptWrites = 1

\* C21: while the input or the output element is missing, an invocation
\* started by the interval adds one outstanding 500 ms retry timer, a retry
\* timer that fires schedules its successor so that the number of outstanding
\* timers stays the same, and no step lowers that number; a retry chain ends
\* only when its timer fires with both elements present.
C21_RetriesAccumulate ==
    [][/\ (~inputExists \/ ~outputExists) =>
              /\ retryTimers' >= retryTimers
              /\ ev'.kind = "interval" =>
                     /\ retryTimers' = retryTimers + 1
                     /\ ev'.scheduled = << 500 >>
              /\ ev'.kind = "retry" =>
                     /\ retryTimers' = retryTimers
                     /\ ev'.scheduled = << 500 >>
       /\ (inputExists /\ outputExists /\ ev'.kind = "retry") =>
              /\ retryTimers' = retryTimers - 1
              /\ ev'.scheduled = << >>]_vars

C21_Witness ==
    /\ ~inputExists
    /\ ~outputExists
    /\ ev.kind = "retry"
    /\ ev.stage = "missing"
    /\ retryTimers = MaxRetry
    /\ retryTimers > 1

\* Both elements are there after initialize() and carry neither a mutation
\* observer nor the input listener: they were absent when
\* preserveBingLineBreaks ran and appeared later.
AppearedLater ==
    /\ initialized
    /\ inputExists /\ outputExists
    /\ ~inputObserved /\ ~outputObserved /\ ~inputListener

\* The mutation observers and the input listener are attached only by
\* initialize(), and only to an element that exists at that time.
AttachedOnlyAtSetup ==
    [][/\ (inputObserved' /\ ~inputObserved) =>
              (~initialized /\ initialized' /\ inputExists)
       /\ (inputListener' /\ ~inputListener) =>
              (~initialized /\ initialized' /\ inputExists)
       /\ (outputObserved' /\ ~outputObserved) =>
              (~initialized /\ initialized' /\ outputExists)]_vars

\* The interval can fire and its invocation changes the state: the thread is
\* free, setInterval has run, a retry timer can still be added if an element
\* is missing, and the invocation is not one more skip right after a skip.
IntervalCanFire ==
    /\ pendingObservers = {} /\ pendingBody = {}
    /\ intervalActive
    /\ (~inputExists \/ ~outputExists) => retryTimers < MaxRetry
    /\ ~(/\ inputExists /\ outputExists
         /\ inputHTML = lastProcessedInputHTML
         /\ outputText = lastProcessedOutputText
         /\ ev = [NoEffect EXCEPT !.kind = "interval", !.stage = "skipped"])

\* Fair firing of the 750 ms interval: if it can fire again and again, it
\* fires again and again.
FairInterval == []<>IntervalCanFire => []<><<ev'.kind = "interval">>_vars

\* C22 (as stated): elements that are absent when preserveBingLineBreaks runs
\* never get a mutation observer or the input listener, and under fair firing
\* of the interval some invocation after they appear gets past both guards
\* and recomputes the output.
C22_PolledAndResegmented ==
    /\ AttachedOnlyAtSetup
    /\ FairInterval =>
           (AppearedLater ~>
               (ev.kind \in ProcessKinds
                   /\ ev.stage \in {"cleared", "resegmented"}))

\* C22 (amended): elements that are absent when preserveBingLineBreaks runs
\* never get a mutation observer or the input listener; under fair firing of
\* the interval some invocation after they appear reads their contents, and
\* whenever the contents differ from the last-seen strings (both '' at the
\* start) an invocation recomputes the output unless the page restores the
\* last-seen contents first.
C22_PolledWhenChanged ==
    /\ AttachedOnlyAtSetup
    /\ FairInterval =>
           (AppearedLater ~>
               (ev.kind \in ProcessKinds
                   /\ ev.stage \in {"skipped", "cleared", "resegmented"}))
    /\ FairInterval =>
           ((AppearedLater /\ (inputHTML # lastProcessedInputHTML
                                  \/ outputText # lastProcessedOutputText)) ~>
               (\/ ev.kind \in ProcessKinds
                      /\ ev.stage \in {"cleared", "resegmented"}
                \/ (inputHTML = lastProcessedInputHTML
                       /\ outputText = lastProcessedOutputText)))

C22_Witness ==
    /\ AppearedLater
    /\ ev.kind = "interval"
    /\ ev.stage = "resegmented"
    /\ ev.wrote
    /\ lastProcessedInputHTML # Empty
====
